---- MODULE Spec2Model ----
(***************************************************************************)
(* Model of RawBufferOpLowering::matchAndRewrite                           *)
(* (mlir/lib/Conversion/AMDGPUToROCDL/AMDGPUToROCDL.cpp).                  *)
(*                                                                         *)
(* One raw buffer operation (load, store, atomic fadd) is lowered for one  *)
(* chipset.  The rewriter's output is kept as the sequence of created      *)
(* instructions (`emitted`); SSA values are references into it.  The       *)
(* meaning of the created arithmetic is given by an interpreter over       *)
(* 64-bit values (eight base-256 limbs, least significant first), so that  *)
(* truncation to 32 bits and the high bits of a pointer are observable.    *)
(***************************************************************************)
EXTENDS Integers, Sequences, FiniteSets

VARIABLES chipset, gpuOp, pc, emitted, args, storeData, llvmBufferValType,
          byteWidthConst, voffset, sgprOffset, lowered, replacement, diag,
          opState, phases

vars == <<chipset, gpuOp, pc, emitted, args, storeData, llvmBufferValType,
          byteWidthConst, voffset, sgprOffset, lowered, replacement, diag,
          opState, phases>>

(***************************************************************************)
(* Bounds of the model.                                                    *)
(***************************************************************************)
\* largest number of elements of a vector data type
MaxElems == 9
\* largest literal indexOffset attribute
MaxIndexOffset == 2

(***************************************************************************)
(* 64-bit arithmetic on limbs.                                             *)
(***************************************************************************)
Limbs == 1..8

FromInt(n) ==
  [i \in Limbs |-> IF i <= 4 THEN (n \div (256 ^ (i - 1))) % 256 ELSE 0]

Lo32(a) == [i \in Limbs |-> IF i <= 4 THEN a[i] ELSE 0]

RECURSIVE AddFrom(_, _, _, _)
AddFrom(a, b, i, c) ==
  IF i > 8 THEN <<>>
  ELSE LET s == a[i] + b[i] + c
       IN  <<s % 256>> \o AddFrom(a, b, i + 1, s \div 256)

Add64(a, b) == AddFrom(a, b, 1, 0)

RECURSIVE ColSum(_, _, _, _)
ColSum(a, b, k, i) ==
  IF i = 0 THEN 0 ELSE a[i] * b[k + 1 - i] + ColSum(a, b, k, i - 1)

RECURSIVE MulFrom(_, _, _, _)
MulFrom(a, b, k, c) ==
  IF k > 8 THEN <<>>
  ELSE LET s == ColSum(a, b, k, k) + c
       IN  <<s % 256>> \o MulFrom(a, b, k + 1, s \div 256)

Mul64(a, b) == MulFrom(a, b, 1, 0)

RECURSIVE LessFrom(_, _, _)
LessFrom(a, b, i) ==
  IF i = 0 THEN FALSE
  ELSE IF a[i] # b[i] THEN a[i] < b[i] ELSE LessFrom(a, b, i - 1)

Max64(a, b) == IF LessFrom(a, b, 8) THEN b ELSE a

RECURSIVE AndBits(_, _, _)
AndBits(x, y, k) ==
  IF k = 0 THEN 0
  ELSE (x % 2) * (y % 2) + 2 * AndBits(x \div 2, y \div 2, k - 1)

And64(a, b) == [i \in Limbs |-> AndBits(a[i], b[i], 8)]

LimbAt(a, i) == IF i \in Limbs THEN a[i] ELSE 0

\* logical shift right by s bits, 0 <= s
LShr64(a, s) ==
  LET q == s \div 8
      r == s % 8
  IN  [i \in Limbs |->
         ((LimbAt(a, i + q) \div (2 ^ r))
          + (LimbAt(a, i + q + 1) % (2 ^ r)) * (2 ^ (8 - r))) % 256]

\* value of a number below 2^31
ToInt(a) == a[1] + 256 * a[2] + 65536 * a[3] + 16777216 * a[4]

FitsInt(a) == a[4] < 128 /\ \A i \in 5..8 : a[i] = 0

(***************************************************************************)
(* Types, SSA values and instructions.                                     *)
(***************************************************************************)
ScalarTy(elem, bits) == [vec |-> FALSE, n |-> 1, elem |-> elem, bits |-> bits]
VectorTy(n, elem, bits) == [vec |-> TRUE, n |-> n, elem |-> elem, bits |-> bits]

I32Ty == ScalarTy("i", 32)
I64Ty == ScalarTy("i", 64)
V4I32Ty == VectorTy(4, "i", 32)
\* the result type is not passed to the builder (inferred from the operands)
NoTy == ScalarTy("none", 0)

\* a Value is a reference: n > 0 is the result of emitted[n], 0 is the null
\* Value(), negative numbers are the operands of the operation being lowered
NullValue == 0
MemrefOperand == 0 - 1
DataOperand == 0 - 2
SgprOperand == 0 - 3
IdxOperand(i) == 0 - (3 + i)

\* ShapedType's marker of a dynamic size, stride or offset
Dyn == 0 - 1

Inst(op, ty, operands, imm) ==
  [op |-> op, ty |-> ty, operands |-> operands, imm |-> imm]

\* createI32Constant
I32Constant(value) == Inst("constant", I32Ty, <<>>, value)
\* createIndexConstant (index converts to i64)
IndexConstant(value) == Inst("constant", I64Ty, <<>>, value)

(***************************************************************************)
(* The operation being lowered.                                            *)
(***************************************************************************)
Rank(memrefType) == Len(memrefType.shape)

HasStaticShape(memrefType) ==
  \A i \in 1..Rank(memrefType) : memrefType.shape[i] # Dyn

RECURSIVE ProductFrom(_, _)
ProductFrom(shape, i) ==
  IF i > Len(shape) THEN 1 ELSE shape[i] * ProductFrom(shape, i + 1)

NumElements(memrefType) == ProductFrom(memrefType.shape, 1)

HasData(op) == op.kind # "load"
NumResults(op) == IF op.kind = "load" THEN 1 ELSE 0
\* adaptor.getODSOperands(0)[0]
FirstOperand(op) == IF HasData(op) THEN DataOperand ELSE MemrefOperand
Indices(op) == [i \in 1..Rank(op.memrefType) |-> IdxOperand(i)]
IntrinsicOf(op) == "rocdl.raw.buffer." \o op.kind

(***************************************************************************)
(* Pieces of matchAndRewrite.                                              *)
(***************************************************************************)
maxVectorOpWidth == 128

\* variant: the gate admits generation 8
ChipsetSupportedFrom8(c) == ~(c.majorVersion < 8)

ChipsetSupported(c) == ~(c.majorVersion < 9)

ElementByteWidth(memrefType) == memrefType.elementBits \div 8

ErrChipset == "Raw buffer ops require GCN or higher"
ErrWidth == "Total width of loads or stores must be no more than 128 bits"
ErrWords == "Load or store of more than 32-bits that doesn't fit into words"
ErrLayout == "Can't lower non-stride-offset memrefs"

WidthOk(ty) == [ok |-> TRUE, ty |-> ty, err |-> ""]
WidthFail(err) == [ok |-> FALSE, ty |-> NoTy, err |-> err]

\* variant: exactly 32 bits are packed as a vector of one word
BufferValTypeFrom32(wantedDataType) ==
  IF wantedDataType.vec
  THEN LET elemBits == wantedDataType.bits
           totalBits == elemBits * wantedDataType.n
       IN  IF totalBits > maxVectorOpWidth THEN WidthFail(ErrWidth)
           ELSE IF elemBits < 32
           THEN IF totalBits >= 32
                THEN IF totalBits % 32 # 0 THEN WidthFail(ErrWords)
                     ELSE WidthOk(VectorTy(totalBits \div 32, "i", 32))
                ELSE WidthOk(ScalarTy("i", totalBits))
           ELSE WidthOk(wantedDataType)
  ELSE WidthOk(wantedDataType)

\* the type of the value the intrinsic reads or writes
BufferValType(wantedDataType) ==
  IF wantedDataType.vec
  THEN LET elemBits == wantedDataType.bits
           totalBits == elemBits * wantedDataType.n
       IN  IF totalBits > maxVectorOpWidth THEN WidthFail(ErrWidth)
           ELSE IF elemBits < 32
           THEN IF totalBits > 32
                THEN IF totalBits % 32 # 0 THEN WidthFail(ErrWords)
                     ELSE WidthOk(VectorTy(totalBits \div 32, "i", 32))
                ELSE WidthOk(ScalarTy("i", totalBits))
           ELSE WidthOk(wantedDataType)
  ELSE WidthOk(wantedDataType)

\* variant: the out-of-bounds select values are exchanged
Word3Swapped(c, boundsCheck) ==
  (7 * 2 ^ 12) + (4 * 2 ^ 15)
  + (IF c.majorVersion = 10
     THEN 2 ^ 24 + (IF boundsCheck THEN 2 ELSE 3) * 2 ^ 28
     ELSE 0)

Word3(c, boundsCheck) ==
  (7 * 2 ^ 12) + (4 * 2 ^ 15)
  + (IF c.majorVersion = 10
     THEN 2 ^ 24 + (IF boundsCheck THEN 3 ELSE 2) * 2 ^ 28
     ELSE 0)

(***************************************************************************)
(* Emission.  A builder state is [e |-> instructions so far, v |-> the     *)
(* Value produced last].                                                   *)
(***************************************************************************)
Emit(e, inst) == [e |-> Append(e, inst), v |-> Len(e) + 1]

\* variant: the store data is passed without a cast
StoreArgUncast(e, data, llvmWantedDataType, bufTy) == [e |-> e, v |-> data]

\* the data argument of the intrinsic, for an operation that writes
StoreArg(e, data, llvmWantedDataType, bufTy) ==
  IF bufTy # llvmWantedDataType
  THEN Emit(e, Inst("bitcast", bufTy, <<data>>, 0))
  ELSE [e |-> e, v |-> data]

\* c32I64, the undef resource, ptr, ptrAsInt, lowHalf and the resource with
\* word 0; n is the number of instructions before them
LowHalfInsts(n) ==
  <<Inst("constant", I64Ty, <<>>, 32),
    Inst("undef", V4I32Ty, <<>>, 0),
    Inst("alignedPtr", ScalarTy("ptr", 64), <<MemrefOperand>>, 0),
    Inst("ptrtoint", I64Ty, <<n + 3>>, 0),
    Inst("trunc", I32Ty, <<n + 4>>, 0),
    IndexConstant(0),
    Inst("insertelement", V4I32Ty, <<n + 2, n + 5, n + 6>>, 0)>>

\* variant: the high half of the pointer is inserted without the mask
BaseAddressWordsUnmasked(e) ==
  LET n == Len(e)
  IN  [e |-> e \o LowHalfInsts(n)
               \o <<Inst("lshr", NoTy, <<n + 4, n + 1>>, 0),
                    Inst("trunc", I32Ty, <<n + 8>>, 0),
                    IndexConstant(1),
                    Inst("insertelement", V4I32Ty,
                         <<n + 7, n + 9, n + 10>>, 0)>>,
       v |-> n + 11]

\* words 0 and 1 of the resource descriptor: highHalfShifted, the mask,
\* highHalfTruncated and the resource with word 1 follow the low half
BaseAddressWords(e) ==
  LET n == Len(e)
  IN  [e |-> e \o LowHalfInsts(n)
               \o <<Inst("lshr", NoTy, <<n + 4, n + 1>>, 0),
                    Inst("trunc", I32Ty, <<n + 8>>, 0),
                    I32Constant(65535),
                    Inst("and", I32Ty, <<n + 9, n + 10>>, 0),
                    IndexConstant(1),
                    Inst("insertelement", V4I32Ty,
                         <<n + 7, n + 11, n + 12>>, 0)>>,
       v |-> n + 13]

\* size, stride, stride in bytes and maxThisDim of dimension i
ThisDimInsts(n, i, bwc) ==
  <<Inst("size", I64Ty, <<MemrefOperand>>, i),
    Inst("stride", I64Ty, <<MemrefOperand>>, i),
    Inst("mul", NoTy, <<n + 2, bwc>>, 0),
    Inst("mul", NoTy, <<n + 1, n + 3>>, 0)>>

\* the loop over the dimensions of a memref without static shape
RECURSIVE MaxIndexLoop(_, _, _, _, _)
MaxIndexLoop(e, i, rank, maxIndex, bwc) ==
  IF i >= rank THEN [e |-> e, v |-> maxIndex]
  ELSE LET n == Len(e)
           dim == ThisDimInsts(n, i, bwc)
       IN  IF maxIndex # NullValue
           THEN MaxIndexLoop(
                  e \o dim \o <<Inst("maximum", NoTy, <<maxIndex, n + 4>>, 0)>>,
                  i + 1, rank, n + 5, bwc)
           ELSE MaxIndexLoop(e \o dim, i + 1, rank, n + 4, bwc)

\* variant: each dimension is truncated before the maximum is taken
RECURSIVE MaxIndexLoopTruncating(_, _, _, _, _)
MaxIndexLoopTruncating(e, i, rank, maxIndex, bwc) ==
  IF i >= rank THEN [e |-> e, v |-> maxIndex]
  ELSE LET n == Len(e)
           dim == ThisDimInsts(n, i, bwc)
                  \o <<Inst("trunc", I32Ty, <<n + 4>>, 0)>>
       IN  IF maxIndex # NullValue
           THEN MaxIndexLoopTruncating(
                  e \o dim \o <<Inst("maximum", NoTy, <<maxIndex, n + 5>>, 0)>>,
                  i + 1, rank, n + 6, bwc)
           ELSE MaxIndexLoopTruncating(e \o dim, i + 1, rank, n + 5, bwc)

NumRecordsTruncating(e, memrefType, bwc) ==
  IF HasStaticShape(memrefType)
  THEN Emit(e, I32Constant(NumElements(memrefType)
                           * ElementByteWidth(memrefType)))
  ELSE LET maxIndex ==
             MaxIndexLoopTruncating(e, 0, Rank(memrefType), NullValue, bwc)
       IN  Emit(maxIndex.e, Inst("trunc", I32Ty, <<maxIndex.v>>, 0))

\* word 2 of the resource descriptor
NumRecords(e, memrefType, bwc) ==
  IF HasStaticShape(memrefType)
  THEN Emit(e, I32Constant(NumElements(memrefType)
                           * ElementByteWidth(memrefType)))
  ELSE LET maxIndex == MaxIndexLoop(e, 0, Rank(memrefType), NullValue, bwc)
       IN  Emit(maxIndex.e, Inst("trunc", I32Ty, <<maxIndex.v>>, 0))

\* the resource with words 2 and 3, after numRecords was emitted
LastWordsInsts(n, words01, numRecords, word3) ==
  <<IndexConstant(2),
    Inst("insertelement", V4I32Ty, <<words01, numRecords, n + 1>>, 0),
    I32Constant(word3),
    IndexConstant(3),
    Inst("insertelement", V4I32Ty, <<n + 2, n + 3, n + 4>>, 0)>>

\* the whole resource descriptor
Resource(e, op, c, bwc) ==
  LET words01 == BaseAddressWords(e)
      numRecords == NumRecords(words01.e, op.memrefType, bwc)
      n == Len(numRecords.e)
  IN  [e |-> numRecords.e
               \o LastWordsInsts(n, words01.v, numRecords.v,
                                 Word3(c, op.boundsCheck)),
       v |-> n + 5]

\* strideOp of dimension i: a constant, or the runtime stride in bytes
StrideOpInsts(memrefType, i, bwc, n) ==
  IF memrefType.strides[i + 1] = Dyn
  THEN <<Inst("stride", I64Ty, <<MemrefOperand>>, i),
         Inst("mul", NoTy, <<n + 1, bwc>>, 0)>>
  ELSE <<I32Constant(memrefType.strides[i + 1]
                     * ElementByteWidth(memrefType))>>

\* the loop over the index operands; i counts from 0
RECURSIVE IndexLoop(_, _, _, _, _, _)
IndexLoop(e, i, indices, memrefType, voff, bwc) ==
  IF i >= Len(indices) THEN [e |-> e, v |-> voff]
  ELSE LET strideOp == e \o StrideOpInsts(memrefType, i, bwc, Len(e))
           n == Len(strideOp)
           index == Inst("mul", NoTy, <<indices[i + 1], n>>, 0)
       IN  IF voff # NullValue
           THEN IndexLoop(
                  strideOp \o <<index, Inst("add", NoTy, <<voff, n + 1>>, 0)>>,
                  i + 1, indices, memrefType, n + 2, bwc)
           ELSE IndexLoop(strideOp \o <<index>>,
                          i + 1, indices, memrefType, n + 1, bwc)

\* the extra index offset, added to what the loop computed
ExtraOffset(loop, value) ==
  LET n == Len(loop.e)
  IN  IF loop.v # NullValue
      THEN [e |-> loop.e \o <<I32Constant(value),
                              Inst("add", NoTy, <<loop.v, n + 1>>, 0)>>,
            v |-> n + 2]
      ELSE [e |-> loop.e \o <<I32Constant(value)>>, v |-> n + 1]

\* variant: the extra index offset is added in elements, not bytes
VOffsetUnscaled(e, op, bwc) ==
  LET loop == IndexLoop(e, 0, Indices(op), op.memrefType, NullValue, bwc)
  IN  IF op.indexOffset # <<>>
      THEN ExtraOffset(loop, op.indexOffset[1])
      ELSE loop

VOffset(e, op, bwc) ==
  LET loop == IndexLoop(e, 0, Indices(op), op.memrefType, NullValue, bwc)
  IN  IF op.indexOffset # <<>>
      THEN ExtraOffset(loop, op.indexOffset[1]
                             * ElementByteWidth(op.memrefType))
      ELSE loop

\* the offset of the array, added to the offset `start`
ArrayOffset(start, offset) ==
  LET n == Len(start.e)
  IN  IF offset = Dyn
      THEN [e |-> start.e \o <<Inst("offset", I64Ty, <<MemrefOperand>>, 0),
                               Inst("add", NoTy, <<n + 1, start.v>>, 0)>>,
            v |-> n + 2]
      ELSE IF offset > 0
      THEN [e |-> start.e \o <<I32Constant(offset),
                               Inst("add", NoTy, <<start.v, n + 1>>, 0)>>,
            v |-> n + 2]
      ELSE start

SgprOffset(e, op) ==
  ArrayOffset(IF op.hasSgprOffset THEN [e |-> e, v |-> SgprOperand]
              ELSE Emit(e, I32Constant(0)),
              op.memrefType.offset)

\* variant: sgprOffset is pushed before voffset
OffsetArgsSwapped(voff, sgpr) == <<sgpr, voff>>

\* the two offsets, in the order they are pushed onto args
OffsetArgs(voff, sgpr) == <<voff, sgpr>>

\* variant: the test of the number of results is inverted
OutcomeInverted(numResults) == IF numResults = 1 THEN "Erased" ELSE "Replaced"

\* what happens to the original operation once the intrinsic is created
Outcome(numResults) == IF numResults = 1 THEN "Replaced" ELSE "Erased"

(***************************************************************************)
(* Inputs.                                                                 *)
(***************************************************************************)
Majors == {8, 9, 10, 11}
Kinds == {"load", "store", "atomic.fadd"}

ScalarTypes == {ScalarTy("f", 32), ScalarTy("i", 8), ScalarTy("f", 16)}
ElementTypes == {<<"i", 8>>, <<"f", 16>>, <<"f", 32>>}
VectorTypes ==
  {VectorTy(n, et[1], et[2]) : n \in 1..MaxElems, et \in ElementTypes}
DataTypes == ScalarTypes \cup VectorTypes

Layout(shape, strides, offset, strided) ==
  [shape |-> shape, strides |-> strides, offset |-> offset,
   strided |-> strided]

LayoutScalar == Layout(<<>>, <<>>, 0, TRUE)
LayoutStatic == Layout(<<4, 8>>, <<8, 1>>, 0, TRUE)
LayoutDynamic == Layout(<<Dyn, 8>>, <<Dyn, 1>>, 0, TRUE)
LayoutStaticOffset == Layout(<<4, 8>>, <<8, 1>>, 16, TRUE)
LayoutDynamicOffset == Layout(<<4, 8>>, <<8, 1>>, Dyn, TRUE)
LayoutDynamicStride == Layout(<<4>>, <<Dyn>>, Dyn, TRUE)
LayoutDynamicInner == Layout(<<8, Dyn>>, <<Dyn, 1>>, 0, TRUE)
LayoutUnstrided == Layout(<<4, 8>>, <<>>, 0, FALSE)

Layouts ==
  {LayoutScalar, LayoutStatic, LayoutDynamic, LayoutStaticOffset,
   LayoutDynamicOffset, LayoutDynamicStride, LayoutDynamicInner,
   LayoutUnstrided}

IndexOffsets == {<<>>} \cup {<<v>> : v \in 0..MaxIndexOffset}

\* the memref's element type is the data type's element type
MemRefTypeOf(layout, dataType) ==
  [shape |-> layout.shape, strides |-> layout.strides,
   offset |-> layout.offset, strided |-> layout.strided,
   elementBits |-> dataType.bits]

GpuOp(kind, dataType, layout, indexOffset, hasSgprOffset, boundsCheck) ==
  [kind |-> kind, dataType |-> dataType,
   memrefType |-> MemRefTypeOf(layout, dataType),
   indexOffset |-> indexOffset, hasSgprOffset |-> hasSgprOffset,
   boundsCheck |-> boundsCheck]

InitOver(types, layouts, indexOffsets, sgprs, boundsChecks) ==
  /\ chipset \in [majorVersion : Majors]
  /\ gpuOp \in {GpuOp(k, t, l, io, s, b) :
                  k \in Kinds, t \in types, l \in layouts,
                  io \in indexOffsets, s \in sgprs, b \in boundsChecks}
  /\ pc = "Start"
  /\ emitted = <<>>
  /\ args = <<>>
  /\ storeData = NullValue
  /\ llvmBufferValType = NoTy
  /\ byteWidthConst = NullValue
  /\ voffset = NullValue
  /\ sgprOffset = NullValue
  /\ lowered = NullValue
  /\ replacement = NullValue
  /\ diag = ""
  /\ opState = "present"
  /\ phases = <<>>

\* every data type, on a few layouts
Init ==
  InitOver(DataTypes, {LayoutScalar, LayoutStatic, LayoutUnstrided},
           {<<>>}, {FALSE}, BOOLEAN)

\* every layout and offset operand, on a few data types
InitLayout ==
  InitOver({ScalarTy("f", 32), VectorTy(4, "i", 8), VectorTy(5, "i", 8)},
           Layouts, IndexOffsets, BOOLEAN, {TRUE})

(***************************************************************************)
(* matchAndRewrite, one action per stage.                                  *)
(***************************************************************************)
Fail(reason) ==
  /\ pc' = "Failed"
  /\ diag' = reason

ChipsetGate ==
  /\ pc = "Start"
  /\ phases' = Append(phases, "chipset")
  /\ IF ~ChipsetSupported(chipset)
     THEN Fail(ErrChipset)
     ELSE pc' = "ChipsetChecked" /\ diag' = diag
  /\ UNCHANGED <<chipset, gpuOp, emitted, args, storeData, llvmBufferValType,
                 byteWidthConst, voffset, sgprOffset, lowered, replacement,
                 opState>>

ResolveWidth ==
  /\ pc = "ChipsetChecked"
  /\ phases' = Append(phases, "width")
  /\ LET data == IF FirstOperand(gpuOp) = MemrefOperand
                 THEN NullValue ELSE FirstOperand(gpuOp)
         wantedDataType == gpuOp.dataType
         bwc == Emit(emitted,
                     I32Constant(ElementByteWidth(gpuOp.memrefType)))
         width == BufferValType(wantedDataType)
         arg == StoreArg(bwc.e, data, wantedDataType, width.ty)
     IN  /\ storeData' = data
         /\ byteWidthConst' = bwc.v
         /\ IF ~width.ok
            THEN /\ Fail(width.err)
                 /\ emitted' = bwc.e
                 /\ UNCHANGED <<args, llvmBufferValType>>
            ELSE /\ pc' = "WidthResolved"
                 /\ diag' = diag
                 /\ llvmBufferValType' = width.ty
                 /\ IF data # NullValue
                    THEN emitted' = arg.e /\ args' = <<arg.v>>
                    ELSE emitted' = bwc.e /\ args' = <<>>
  /\ UNCHANGED <<chipset, gpuOp, voffset, sgprOffset, lowered, replacement,
                 opState>>

BuildDescriptor ==
  /\ pc = "WidthResolved"
  /\ phases' = Append(phases, "descriptor")
  /\ IF ~gpuOp.memrefType.strided
     THEN Fail(ErrLayout) /\ UNCHANGED <<emitted, args>>
     ELSE LET resource == Resource(emitted, gpuOp, chipset, byteWidthConst)
          IN  /\ pc' = "DescriptorBuilt"
              /\ diag' = diag
              /\ emitted' = resource.e
              /\ args' = Append(args, resource.v)
  /\ UNCHANGED <<chipset, gpuOp, storeData, llvmBufferValType,
                 byteWidthConst, voffset, sgprOffset, lowered, replacement,
                 opState>>

BuildOffsets ==
  /\ pc = "DescriptorBuilt"
  /\ phases' = Append(phases, "offsets")
  /\ LET voff == VOffset(emitted, gpuOp, byteWidthConst)
         sgpr == SgprOffset(voff.e, gpuOp)
     IN  /\ voffset' = voff.v
         /\ sgprOffset' = sgpr.v
         /\ emitted' = sgpr.e
         /\ args' = args \o OffsetArgs(voff.v, sgpr.v)
  /\ pc' = "OffsetsBuilt"
  /\ UNCHANGED <<chipset, gpuOp, storeData, llvmBufferValType,
                 byteWidthConst, lowered, replacement, diag, opState>>

EmitIntrinsic ==
  /\ pc = "OffsetsBuilt"
  /\ phases' = Append(phases, "intrinsic")
  /\ LET aux == Emit(emitted, I32Constant(0))
         call == Emit(aux.e,
                      Inst(IntrinsicOf(gpuOp), llvmBufferValType,
                           Append(args, aux.v), NumResults(gpuOp)))
     IN  /\ args' = Append(args, aux.v)
         /\ emitted' = call.e
         /\ lowered' = call.v
  /\ pc' = "IntrinsicEmitted"
  /\ UNCHANGED <<chipset, gpuOp, storeData, llvmBufferValType,
                 byteWidthConst, voffset, sgprOffset, replacement, diag,
                 opState>>

Finish ==
  /\ pc = "IntrinsicEmitted"
  /\ phases' = Append(phases, "finish")
  /\ IF Outcome(emitted[lowered].imm) = "Replaced"
     THEN LET cast == IF llvmBufferValType # gpuOp.dataType
                      THEN Emit(emitted,
                                Inst("bitcast", gpuOp.dataType,
                                     <<lowered>>, 0))
                      ELSE [e |-> emitted, v |-> lowered]
          IN  /\ emitted' = cast.e
              /\ replacement' = cast.v
              /\ opState' = "replaced"
              /\ pc' = "Replaced"
     ELSE /\ opState' = "erased"
          /\ pc' = "Erased"
          /\ UNCHANGED <<emitted, replacement>>
  /\ UNCHANGED <<chipset, gpuOp, args, storeData, llvmBufferValType,
                 byteWidthConst, voffset, sgprOffset, lowered, diag>>

Next ==
  \/ ChipsetGate
  \/ ResolveWidth
  \/ BuildDescriptor
  \/ BuildOffsets
  \/ EmitIntrinsic
  \/ Finish

Spec == Init /\ [][Next]_vars

SpecLayout == InitLayout /\ [][Next]_vars

(***************************************************************************)
(* Meaning of the emitted instructions.  An environment gives the runtime  *)
(* content of the memref descriptor and of the operands.                   *)
(***************************************************************************)
Zero64 == FromInt(0)
UndefLane == <<>>

Static(field, dynamic) == IF field = Dyn THEN dynamic ELSE field

SizeField(memrefType, env, i) ==
  FromInt(Static(memrefType.shape[i + 1], env.dynSize))
StrideField(memrefType, env, i) ==
  FromInt(Static(memrefType.strides[i + 1], env.dynStride))
OffsetField(memrefType, env) ==
  FromInt(Static(memrefType.offset, env.dynOffset))

ValueOf(ref, vals, env) ==
  IF ref > 0 THEN vals[ref]
  ELSE IF ref = SgprOperand THEN FromInt(env.sgpr)
  ELSE IF ref < SgprOperand THEN FromInt(env.idx[0 - ref - 3])
  ELSE Zero64

EvalInst(inst, vals, env, memrefType) ==
  LET V(k) == ValueOf(inst.operands[k], vals, env)
  IN  CASE inst.op = "constant" -> FromInt(inst.imm)
        [] inst.op = "undef" -> [i \in 1..inst.ty.n |-> UndefLane]
        [] inst.op = "alignedPtr" -> env.ptr
        [] inst.op = "ptrtoint" -> V(1)
        [] inst.op = "trunc" -> Lo32(V(1))
        [] inst.op = "lshr" -> LShr64(V(1), ToInt(V(2)))
        [] inst.op = "and" -> And64(V(1), V(2))
        [] inst.op = "insertelement" ->
             [V(1) EXCEPT ![ToInt(V(3)) + 1] = V(2)]
        [] inst.op = "size" -> SizeField(memrefType, env, inst.imm)
        [] inst.op = "stride" -> StrideField(memrefType, env, inst.imm)
        [] inst.op = "offset" -> OffsetField(memrefType, env)
        [] inst.op = "mul" -> Mul64(V(1), V(2))
        [] inst.op = "add" -> Add64(V(1), V(2))
        [] inst.op = "maximum" -> Max64(V(1), V(2))
        [] OTHER -> Zero64

RECURSIVE EvalFrom(_, _, _, _, _)
EvalFrom(e, env, memrefType, vals, i) ==
  IF i > Len(e) THEN vals
  ELSE EvalFrom(e, env, memrefType,
                Append(vals, EvalInst(e[i], vals, env, memrefType)), i + 1)

\* the value of every emitted instruction
Eval(e, env, memrefType) == EvalFrom(e, env, memrefType, <<>>, 1)

(***************************************************************************)
(* Runtime environments the properties are checked over.                   *)
(***************************************************************************)
Env(ptr, dynSize, dynStride, dynOffset, idx, sgpr) ==
  [ptr |-> ptr, dynSize |-> dynSize, dynStride |-> dynStride,
   dynOffset |-> dynOffset, idx |-> idx, sgpr |-> sgpr]

Env0 == Env(Zero64, 3, 3, 0, <<2, 3>>, 0)

\* base addresses, least significant byte first
Addrs ==
  {Zero64,
   <<120, 86, 52, 18, 188, 154, 255, 255>>,
   <<255, 255, 255, 255, 255, 255, 255, 255>>,
   <<1, 0, 0, 0, 0, 0, 0, 128>>,
   <<0, 0, 0, 128, 239, 205, 0, 0>>}

DynVals == {3, 65536}

EnvsAddr == {Env(a, 3, 3, 0, <<2, 3>>, 0) : a \in Addrs}
EnvsShape == {Env(Zero64, n, m, 0, <<2, 3>>, 0) : n \in DynVals, m \in DynVals}
EnvsOffsets ==
  {Env(Zero64, 3, 3, 0, <<2, 3>>, 0),
   Env(Zero64, 3, 3, 7, <<1, 0>>, 5),
   Env(Zero64, 3, 65536, 7, <<2, 3>>, 5),
   Env(Zero64, 3, 65536, 0, <<1073741824, 5>>, 0),
   Env(Zero64, 3, 3, 7, <<1073741824, 5>>, 5)}

(***************************************************************************)
(* Observations of the state.                                              *)
(***************************************************************************)
Done(phase) == \E i \in 1..Len(phases) : phases[i] = phase
Succeeded == pc \in {"Replaced", "Erased"}
WidthDiffers == llvmBufferValType # gpuOp.dataType
DescriptorDone == Done("descriptor") /\ pc # "Failed"
OffsetsDone == Done("offsets")
CallDone == Done("intrinsic")

\* the descriptor argument
ResourceArg == args[IF storeData # NullValue THEN 2 ELSE 1]

\* the words of the descriptor in environment env
DescriptorWords(env) == Eval(emitted, env, gpuOp.memrefType)[ResourceArg]

\* the instruction that defines lane `lane` of the vector value ref
RECURSIVE LaneDef(_, _, _)
LaneDef(e, ref, lane) ==
  IF e[ref].op # "insertelement" THEN NullValue
  ELSE IF e[e[ref].operands[3]].imm = lane THEN e[ref].operands[2]
  ELSE LaneDef(e, e[ref].operands[1], lane)

Bits(w, lo, n) == (w \div (2 ^ lo)) % (2 ^ n)

Errors == {ErrChipset, ErrWidth, ErrWords, ErrLayout}

(***************************************************************************)
(* C1.  On a chipset with majorVersion < 9 every load, store and atomic    *)
(* add fails with the unsupported-chipset error, whatever else is wrong    *)
(* with the operation, and nothing has been emitted.                       *)
(***************************************************************************)
Thm_C1 ==
  (chipset.majorVersion < 9 /\ Done("chipset")) =>
     /\ pc = "Failed"
     /\ diag = ErrChipset
     /\ emitted = <<>>
     /\ opState = "present"
     /\ phases = <<"chipset">>

\* an old chipset, an oversized data type and a layout without strides
Wit_C1 ==
  /\ chipset.majorVersion = 8
  /\ gpuOp.kind = "atomic.fadd"
  /\ gpuOp.dataType = VectorTy(9, "f", 32)
  /\ ~gpuOp.memrefType.strided
  /\ pc = "Failed"
  /\ diag = ErrChipset

(***************************************************************************)
(* C2.  On a chipset >= 9 the width adaptation gives: a non-vector type    *)
(* unchanged; a vector of N elements of B bits with N*B > 128 fails;       *)
(* otherwise B >= 32 unchanged; B < 32 and N*B <= 32 one integer of N*B    *)
(* bits; B < 32, N*B > 32 a multiple of 32, N*B/32 integers of 32 bits;    *)
(* B < 32, N*B > 32 not a multiple of 32 fails.                            *)
(***************************************************************************)
ClaimedWidth(t) ==
  LET total == t.n * t.bits
  IN  CASE ~t.vec -> WidthOk(t)
        [] t.vec /\ total > 128 -> WidthFail(ErrWidth)
        [] t.vec /\ total <= 128 /\ t.bits >= 32 -> WidthOk(t)
        [] t.vec /\ t.bits < 32 /\ total <= 32 -> WidthOk(ScalarTy("i", total))
        [] t.vec /\ t.bits < 32 /\ total > 32 /\ total <= 128
             /\ total % 32 = 0 -> WidthOk(VectorTy(total \div 32, "i", 32))
        [] t.vec /\ t.bits < 32 /\ total > 32 /\ total <= 128
             /\ total % 32 # 0 -> WidthFail(ErrWords)

Thm_C2 ==
  (chipset.majorVersion >= 9 /\ Done("width")) =>
     LET claimed == ClaimedWidth(gpuOp.dataType)
     IN  IF claimed.ok
         THEN /\ llvmBufferValType = claimed.ty
              /\ diag \notin {ErrWidth, ErrWords}
         ELSE /\ pc = "Failed"
              /\ diag = claimed.err
              /\ phases = <<"chipset", "width">>

\* four 16-bit floats travel as two 32-bit integers
Wit_C2 ==
  /\ gpuOp.dataType = VectorTy(4, "f", 16)
  /\ pc = "WidthResolved"
  /\ llvmBufferValType = VectorTy(2, "i", 32)

(***************************************************************************)
(* C6.  Word 3 of the descriptor: bits 12-14 are 7 and bits 15-18 are 4;   *)
(* on majorVersion 10 bit 24 is set and bits 28-29 are 3 with bounds       *)
(* checking and 2 without; on majorVersion 9 bit 24 and bits 28-29 are 0;  *)
(* every other bit is 0.                                                   *)
(***************************************************************************)
Thm_C6 ==
  DescriptorDone =>
    LET word == DescriptorWords(Env0)[4]
        w == ToInt(word)
    IN  /\ FitsInt(word)
        /\ Bits(w, 12, 3) = 7
        /\ Bits(w, 15, 4) = 4
        /\ chipset.majorVersion = 10 =>
             /\ Bits(w, 24, 1) = 1
             /\ Bits(w, 28, 2) = IF gpuOp.boundsCheck THEN 3 ELSE 2
        /\ chipset.majorVersion = 9 =>
             /\ Bits(w, 24, 1) = 0
             /\ Bits(w, 28, 2) = 0
        /\ Bits(w, 0, 12) = 0
        /\ Bits(w, 19, 5) = 0
        /\ Bits(w, 25, 3) = 0
        /\ Bits(w, 30, 1) = 0
        /\ emitted[LaneDef(emitted, ResourceArg, 3)].op = "constant"

\* a generation-10 store that asks for bounds checking
Wit_C6 ==
  /\ chipset.majorVersion = 10
  /\ gpuOp.boundsCheck
  /\ gpuOp.kind = "store"
  /\ pc = "Erased"
  /\ Bits(ToInt(DescriptorWords(Env0)[4]), 28, 2) = 3

(***************************************************************************)
(* C7.  Word 0 of the descriptor is the low 32 bits of the base address    *)
(* and word 1 is bits 32-47 of it: the upper 16 bits of word 1 are zero    *)
(* whatever the upper 16 bits of the address are.                          *)
(***************************************************************************)
Thm_C7 ==
  DescriptorDone =>
    \A env \in EnvsAddr :
      LET words == DescriptorWords(env)
          a == env.ptr
      IN  /\ words[1] = <<a[1], a[2], a[3], a[4], 0, 0, 0, 0>>
          /\ words[2] = <<a[5], a[6], 0, 0, 0, 0, 0, 0>>

\* a lowered load from an address whose upper 16 bits are all set
Wit_C7 ==
  /\ pc = "Replaced"
  /\ \E env \in EnvsAddr :
       /\ env.ptr[7] = 255 /\ env.ptr[8] = 255
       /\ DescriptorWords(env)[2] = <<188, 154, 0, 0, 0, 0, 0, 0>>

(***************************************************************************)
(* C3.  voffset and sgprOffset are always materialized 32-bit values: a    *)
(* rank-0 access without index offset passes a zero constant as voffset,   *)
(* and without offset operand and with a static zero array offset          *)
(* sgprOffset is a zero constant.                                          *)
(***************************************************************************)
Claim_C3 ==
  OffsetsDone =>
    /\ voffset # NullValue
    /\ sgprOffset # NullValue
    /\ (Rank(gpuOp.memrefType) = 0 /\ gpuOp.indexOffset = <<>>) =>
         (voffset > 0 /\ emitted[voffset] = I32Constant(0))
    /\ (~gpuOp.hasSgprOffset /\ gpuOp.memrefType.offset = 0) =>
         (sgprOffset > 0 /\ emitted[sgprOffset] = I32Constant(0))

(***************************************************************************)
(* C4.  With an index operand or an extra index offset, voffset is the     *)
(* sum over the dimensions of idx_i * stride_i * elementByteWidth plus     *)
(* extraOffset * elementByteWidth, and sgprOffset is the offset operand    *)
(* (or 0) plus the runtime offset field (dynamic array offset) or the      *)
(* nonzero static offset; both as 32-bit values.  Shape [4,8], 32-bit      *)
(* elements, strides [8,1], index [2,3]: voffset 76, sgprOffset 0.         *)
(***************************************************************************)
RECURSIVE ClaimedIndexSum(_, _, _)
ClaimedIndexSum(op, env, i) ==
  IF i > Rank(op.memrefType) THEN Zero64
  ELSE Add64(Mul64(Mul64(FromInt(env.idx[i]),
                         StrideField(op.memrefType, env, i - 1)),
                   FromInt(op.memrefType.elementBits \div 8)),
             ClaimedIndexSum(op, env, i + 1))

ClaimedVOffset(op, env) ==
  Lo32(Add64(ClaimedIndexSum(op, env, 1),
             IF op.indexOffset # <<>>
             THEN FromInt(op.indexOffset[1] * (op.memrefType.elementBits \div 8))
             ELSE Zero64))

ClaimedSgprOffset(op, env) ==
  Lo32(Add64(IF op.hasSgprOffset THEN FromInt(env.sgpr) ELSE Zero64,
             IF op.memrefType.offset = Dyn THEN FromInt(env.dynOffset)
             ELSE IF op.memrefType.offset # 0
             THEN FromInt(op.memrefType.offset)
             ELSE Zero64))

\* the offsets as the intrinsic receives them
OffsetValues(env) ==
  LET vals == Eval(emitted, env, gpuOp.memrefType)
  IN  [voffset |-> Lo32(ValueOf(voffset, vals, env)),
       sgprOffset |-> Lo32(ValueOf(sgprOffset, vals, env))]

Thm_C4 ==
  (OffsetsDone /\ (Rank(gpuOp.memrefType) > 0 \/ gpuOp.indexOffset # <<>>)) =>
    /\ voffset > 0
    /\ \A env \in EnvsOffsets :
         OffsetValues(env)
           = [voffset |-> ClaimedVOffset(gpuOp, env),
              sgprOffset |-> ClaimedSgprOffset(gpuOp, env)]

\* the static scenario, and an access with every kind of term
Wit_C4 ==
  /\ pc = "OffsetsBuilt"
  /\ gpuOp.memrefType = MemRefTypeOf(LayoutStatic, ScalarTy("f", 32))
  /\ gpuOp.indexOffset = <<>>
  /\ ~gpuOp.hasSgprOffset
  /\ ToInt(OffsetValues(Env0).voffset) = 76
  /\ ToInt(OffsetValues(Env0).sgprOffset) = 0

(***************************************************************************)
(* C5.  Word 2 of the descriptor: with static sizes the constant           *)
(* (product of the sizes) * elementByteWidth; with a dynamic size the      *)
(* runtime maximum over the dimensions of size_i * stride_i *              *)
(* elementByteWidth truncated to 32 bits, never a constant.  [4,8] of      *)
(* 32-bit elements: 128; sizes [n,8], strides [n,1]: max(n*n*4, 8*1*4).    *)
(***************************************************************************)
RECURSIVE ClaimedMaxDims(_, _, _)
ClaimedMaxDims(memrefType, env, i) ==
  IF i > Rank(memrefType) THEN Zero64
  ELSE Max64(Mul64(Mul64(SizeField(memrefType, env, i - 1),
                         StrideField(memrefType, env, i - 1)),
                   FromInt(memrefType.elementBits \div 8)),
             ClaimedMaxDims(memrefType, env, i + 1))

AllSizesStatic(memrefType) ==
  ~(\E i \in 1..Len(memrefType.shape) : memrefType.shape[i] = Dyn)

Thm_C5 ==
  DescriptorDone =>
    LET memrefType == gpuOp.memrefType
        def == emitted[LaneDef(emitted, ResourceArg, 2)]
    IN  IF AllSizesStatic(memrefType)
        THEN /\ def.op = "constant"
             /\ def.imm = ProductFrom(memrefType.shape, 1)
                          * (memrefType.elementBits \div 8)
             /\ \A env \in EnvsShape :
                  DescriptorWords(env)[3] = FromInt(def.imm)
        ELSE /\ def.op # "constant"
             /\ \A env \in EnvsShape :
                  DescriptorWords(env)[3]
                    = Lo32(ClaimedMaxDims(memrefType, env, 1))

\* sizes [n,8], strides [n,1], 32-bit elements: n = 3 gives max(36, 32) and
\* n = 65536 gives max(2^34, 32), whose low 32 bits are 0
Wit_C5 ==
  /\ pc = "DescriptorBuilt"
  /\ gpuOp.memrefType = MemRefTypeOf(LayoutDynamic, ScalarTy("f", 32))
  /\ ToInt(DescriptorWords(Env(Zero64, 3, 3, 0, <<2, 3>>, 0))[3]) = 36
  /\ ToInt(DescriptorWords(Env(Zero64, 65536, 65536, 0, <<2, 3>>, 0))[3]) = 0

(***************************************************************************)
(* C8.  A reinterpretation cast is emitted exactly when the wire type      *)
(* differs from the logical type; for an operation with store data it      *)
(* comes before the intrinsic call and is the call's data argument; for    *)
(* an operation with a result it comes after the call and it, not the      *)
(* call's result, replaces the operation's result.                         *)
(***************************************************************************)
Casts == {i \in 1..Len(emitted) : emitted[i].op = "bitcast"}

Thm_C8 ==
  Succeeded =>
    /\ (Casts # {}) <=> WidthDiffers
    /\ (HasData(gpuOp) /\ WidthDiffers) =>
         \E i \in Casts :
           /\ Casts = {i}
           /\ i < lowered
           /\ emitted[i] = Inst("bitcast", llvmBufferValType, <<DataOperand>>, 0)
           /\ emitted[lowered].operands[1] = i
    /\ (HasData(gpuOp) /\ ~WidthDiffers) =>
         emitted[lowered].operands[1] = DataOperand
    /\ (NumResults(gpuOp) = 1 /\ WidthDiffers) =>
         \E i \in Casts :
           /\ Casts = {i}
           /\ i > lowered
           /\ emitted[i] = Inst("bitcast", gpuOp.dataType, <<lowered>>, 0)
           /\ replacement = i
    /\ (NumResults(gpuOp) = 1 /\ ~WidthDiffers) => replacement = lowered

\* a store of four bytes, cast to one 32-bit integer before the call
Wit_C8 ==
  /\ pc = "Erased"
  /\ gpuOp.kind = "store"
  /\ gpuOp.dataType = VectorTy(4, "i", 8)
  /\ Casts # {}
  /\ \A i \in Casts : i < lowered

(***************************************************************************)
(* C9.  The stages run in the order chipset check, width resolution,       *)
(* descriptor, offsets, intrinsic; every lowering ends Failed, Replaced    *)
(* or Erased; a success is Replaced exactly when the operation had one     *)
(* result and Erased exactly when it had none; after a failure the         *)
(* operation is neither replaced nor erased and no intrinsic call exists.  *)
(***************************************************************************)
PhaseOrder ==
  <<"chipset", "width", "descriptor", "offsets", "intrinsic", "finish">>
Terminal == {"Failed", "Replaced", "Erased"}
\* where the lowering stands after n - 1 stages without a failure
StageAfter ==
  <<"Start", "ChipsetChecked", "WidthResolved", "DescriptorBuilt",
    "OffsetsBuilt", "IntrinsicEmitted">>

Thm_C9 ==
  /\ Len(phases) <= Len(PhaseOrder)
  /\ \A i \in 1..Len(phases) : phases[i] = PhaseOrder[i]
  /\ pc \notin Terminal =>
       /\ opState = "present"
       /\ pc = StageAfter[Len(phases) + 1]
  /\ Succeeded =>
       /\ phases = PhaseOrder
       /\ pc = "Replaced" <=> NumResults(gpuOp) = 1
       /\ pc = "Erased" <=> NumResults(gpuOp) = 0
       /\ pc = "Replaced" => (opState = "replaced" /\ replacement > 0)
       /\ pc = "Erased" => (opState = "erased" /\ replacement = NullValue)
  /\ pc = "Failed" =>
       /\ diag \in Errors
       /\ opState = "present"
       /\ replacement = NullValue
       /\ lowered = NullValue
       /\ \A i \in 1..Len(emitted) : emitted[i].op # IntrinsicOf(gpuOp)

\* a store that fails on its layout after its cast was created
Wit_C9 ==
  /\ pc = "Failed"
  /\ diag = ErrLayout
  /\ gpuOp.kind = "store"
  /\ Casts # {}
  /\ opState = "present"

(***************************************************************************)
(* C10.  The intrinsic's arguments are, in order, the store data (store    *)
(* and atomic add only), the 4-word descriptor, voffset, sgprOffset and    *)
(* the 32-bit constant 0: 5 with store data, 4 without; the call has as    *)
(* many results as the operation had, of the wire type.                    *)
(***************************************************************************)
Thm_C10 ==
  CallDone =>
    LET call == emitted[lowered]
        k == IF HasData(gpuOp) THEN 1 ELSE 0
        r == call.operands[k + 1]
        z == call.operands[k + 4]
        vals == Eval(emitted, Env0, gpuOp.memrefType)
    IN  /\ call.op = IntrinsicOf(gpuOp)
        /\ Len(call.operands) = 4 + k
        /\ call.operands = args
        /\ HasData(gpuOp) =>
             \/ call.operands[1] = DataOperand
             \/ /\ call.operands[1] > 0
                /\ emitted[call.operands[1]].op = "bitcast"
                /\ emitted[call.operands[1]].operands = <<DataOperand>>
        /\ r > 0
        /\ emitted[r].op = "insertelement"
        /\ emitted[r].ty = V4I32Ty
        /\ \A lane \in 0..3 : LaneDef(emitted, r, lane) # NullValue
        /\ call.operands[k + 2] = voffset
        /\ voffset > 0 =>
             Lo32(vals[call.operands[k + 2]]) = ClaimedVOffset(gpuOp, Env0)
        /\ call.operands[k + 3] = sgprOffset
        /\ Lo32(ValueOf(call.operands[k + 3], vals, Env0))
             = ClaimedSgprOffset(gpuOp, Env0)
        /\ z > 0
        /\ emitted[z] = I32Constant(0)
        /\ z = lowered - 1
        /\ call.imm = NumResults(gpuOp)
        /\ call.ty = llvmBufferValType

\* an atomic add: five arguments and no result
Wit_C10 ==
  /\ pc = "IntrinsicEmitted"
  /\ gpuOp.kind = "atomic.fadd"
  /\ Len(emitted[lowered].operands) = 5
  /\ emitted[lowered].imm = 0
  /\ voffset > 0

====
